---- MODULE Spec2Model ----
(***************************************************************************)
(* event-sync: the paginated stream adapter (src/page_iterator.rs) and the *)
(* commands built on it (src/main.rs): list, list-calendars, sync and       *)
(* import-event.                                                           *)
(*                                                                         *)
(* Option<T> is a sequence of length at most one: None is <<>> and Some(x) *)
(* is <<x>>.  A page token is opaque to the program; the calendar service  *)
(* is modelled as encoding in it the offset at which the next page starts. *)
(***************************************************************************)
EXTENDS Integers, Sequences, FiniteSets, TLC

\* ------------------------------------------------------------------ bounds
MaxSrc == 2        \* events in the source calendar
MaxDst0 == 1       \* events in the destination calendar before the first run
MaxPage == 2       \* items the service puts in one page
MaxEmpty == 1      \* pages per listing the service may leave empty or append
MaxNum == 3        \* value of list --num
MaxRepoll == 2     \* polls of an item stream after it has ended
MaxRuns == 2       \* sync runs
MaxImports == 3    \* import-event invocations

\* ----------------------------------------------------------------- options
None == <<>>
Some(x) == <<x>>
IsSome(o) == o # <<>>
Unwrap(o) == o[1]

\* --------------------------------------------------- extended properties
SRC_ID_KEY == "event-sync-src-id"
OtherKey == "k"

\* A string-to-string map is a sequence of <<key, value>> entries.
RECURSIVE MapGet(_, _)
MapGet(m, k) ==
    IF m = <<>> THEN None
    ELSE IF m[1][1] = k THEN Some(m[1][2])
    ELSE MapGet(Tail(m), k)

\* HashMap::insert: the value of an existing key is replaced.
RECURSIVE MapInsert(_, _, _)
MapInsert(m, k, v) ==
    IF m = <<>> THEN << <<k, v>> >>
    ELSE IF m[1][1] = k THEN << <<k, v>> >> \o Tail(m)
    ELSE <<m[1]>> \o MapInsert(Tail(m), k, v)

RECURSIVE MapCount(_, _)
MapCount(m, k) ==
    IF m = <<>> THEN 0
    ELSE (IF m[1][1] = k THEN 1 ELSE 0) + MapCount(Tail(m), k)

\* ------------------------------------------------------------------ events
Ev(id, ext, summary, tm, upd) ==
    [id |-> id, ext |-> ext, summary |-> summary, tm |-> tm, upd |-> upd]

Shared(m) == Some([shared |-> Some(m)])
NoShared == Some([shared |-> None])

\* event.extended_properties.as_ref().and_then(shared).and_then(get(SRC_ID_KEY))
SrcIdOf(event) ==
    IF event.ext = None THEN None
    ELSE IF Unwrap(event.ext).shared = None THEN None
    ELSE MapGet(Unwrap(Unwrap(event.ext).shared), SRC_ID_KEY)

SrcPool ==
    { Ev(Some(1), None, "A", 1, 0),
      Ev(Some(2), Shared(<< <<SRC_ID_KEY, 1>> >>), "B", 0, 1),
      Ev(None, NoShared, "C", 1, 1),
      Ev(Some(1), Shared(<< <<OtherKey, 7>> >>), "D", 1, 1) }

DstPool ==
    { Ev(Some(1), Shared(<< <<OtherKey, 7>> >>), "P", 1, 1),
      Ev(Some(11), Shared(<< <<SRC_ID_KEY, 1>> >>), "A", 1, 1),
      Ev(Some(12), Shared(<< <<OtherKey, 7>>, <<SRC_ID_KEY, 2>> >>), "B", 0, 0),
      Ev(Some(13), NoShared, "Q", 0, 1) }

SeqsUpTo(S, n) == UNION { [1..k -> S] : k \in 0..n }

Calendars == {"src", "dst"}
Streams == {"src", "dst"}
CalendarList == <<"src", "dst", "other">>

VARIABLES
    cal,        \* the service's calendars: calendar id -> sequence of events
    cal0,       \* the calendars before the first command
    pc,         \* "idle", "list", "after", "dst", "src", "insert", "import"
    cmd,        \* the command running or last run
    args,       \* its arguments
    remaining,  \* Take::remaining of list
    strm,       \* the two item streams of the command
    inflight,   \* calls to the service that have not returned
    index,      \* dst_events_by_src_id
    fetchLog,   \* per stream: the fetch_page calls of this command
    out,        \* per stream: what the item stream has yielded so far
    decisions,  \* the reconciler's log lines of this run
    inserts,    \* the insertEvent calls of this run
    result,     \* how the command ended: "", "ok" or the error
    runs,       \* sync runs started
    prev,       \* what the sync run started from: the destination calendar,
                \* and the arguments and log of the run before it if that
                \* one completed
    imports     \* the import-event invocations so far and their calls

vars == <<cal, cal0, pc, cmd, args, remaining, strm, inflight, index, fetchLog,
          out, decisions, inserts, result, runs, prev, imports>>

\* ------------------------------------------------------ page stream state
GoingFresh(tok) == [k |-> "Going", tok |-> None]

\* State::Going(Option<String>), State::Done
Going(tok) == [k |-> "Going", tok |-> tok]
Done == [k |-> "Done", tok |-> None]

\* try_unfold holds either the state ("state"), the future of the running
\* step ("fut") or neither ("ended"); try_flatten holds the page it is
\* draining in `inner`.
Fresh == [ust |-> "state", st |-> Going(None), inner |-> None]

NoArgs ==
    [calendar |-> "src", take |-> FALSE, num |-> 0, dry_run |-> FALSE,
     starting_after |-> None, updated_after |-> None]

EmptyLogs == [s \in Streams |-> <<>>]

Init ==
    /\ cal0 \in { [src |-> s, dst |-> d] :
                    s \in SeqsUpTo(SrcPool, MaxSrc), d \in SeqsUpTo(DstPool, MaxDst0) }
    /\ cal = cal0
    /\ pc = "idle"
    /\ cmd = "none"
    /\ args = NoArgs
    /\ remaining = 0
    /\ strm = [s \in Streams |-> Fresh]
    /\ inflight = <<>>
    /\ index = <<>>
    /\ fetchLog = EmptyLogs
    /\ out = EmptyLogs
    /\ decisions = <<>>
    /\ inserts = <<>>
    /\ result = ""
    /\ runs = 0
    /\ prev = [ok |-> FALSE, args |-> NoArgs, decisions |-> <<>>, dst |-> cal0["dst"]]
    /\ imports = <<>>


\* ------------------------------------------------------- calendar service
\* listEvents' updatedMin and timeMin filters.
Passes(e, a) ==
    /\ a.updated_after = None \/ e.upd >= Unwrap(a.updated_after)
    /\ a.starting_after = None \/ e.tm >= Unwrap(a.starting_after)

RECURSIVE Filter(_, _)
Filter(evs, a) ==
    IF evs = <<>> THEN <<>>
    ELSE (IF Passes(evs[1], a) THEN <<evs[1]>> ELSE <<>>) \o Filter(Tail(evs), a)

\* The calendar a stream's fetch closure lists.
CalOf(s) == IF cmd = "list" THEN args.calendar ELSE s

\* What the service has to return, over all pages, to the calls of stream s.
Listing(s) ==
    IF cmd = "listcal" THEN CalendarList ELSE Filter(cal[CalOf(s)], args)

Offset(cursor) == IF cursor = None THEN 0 ELSE Unwrap(cursor)

Min(a, b) == IF a < b THEN a ELSE b

RECURSIVE CountIrregular(_, _)
CountIrregular(log, len) ==
    IF log = <<>> THEN 0
    ELSE (IF /\ log[1].next # None
             /\ (log[1].items = <<>> \/ Unwrap(log[1].next) >= len)
          THEN 1 ELSE 0) + CountIrregular(Tail(log), len)

\* The service stamps an inserted event with an id of its own and with the
\* time of the call, which is not before any event's last change.
Now == 1
NewId(events) == 20 + Len(events)
Stored(events, request) ==
    Ev(Some(NewId(events)), request.ext, request.summary, request.tm, Now)

\* ------------------------------------------------------------ item stream
InnerDrainedAlways(s) == TRUE

\* try_flatten polls the page stream only when it holds no page or the page
\* it holds has no item left.
InnerDrained(s) == strm[s].inner = None \/ strm[s].inner = Some(<<>>)
HasItem(s) == strm[s].inner # None /\ Unwrap(strm[s].inner) # <<>>

RECURSIVE CountEnds(_)
CountEnds(o) ==
    IF o = <<>> THEN 0
    ELSE (IF o[1][1] = "item" THEN 0 ELSE 1) + CountEnds(Tail(o))

WantsMoreEager == ~args.take \/ remaining >= 0

\* Take::poll_next polls the stream only while remaining > 0.
WantsMore == ~args.take \/ remaining > 0

PollsEager(s) ==
    \/ pc = "list" /\ s = "src" /\ WantsMore
    \/ pc = "after" /\ s = "src" /\ WantsMore /\ CountEnds(out[s]) <= MaxRepoll
    \/ pc = "dst" /\ s = "dst"
    \/ pc \in {"dst", "src"} /\ s = "src"

\* The consumer of the command is polling stream s.
Polls(s) ==
    \/ pc = "list" /\ s = "src" /\ WantsMore
    \/ pc = "after" /\ s = "src" /\ WantsMore /\ CountEnds(out[s]) <= MaxRepoll
    \/ pc = "dst" /\ s = "dst"
    \/ pc = "src" /\ s = "src"

SetLast(log, e) == [log EXCEPT ![Len(log)] = e]

ListCall(s, cursor) ==
    [op |-> IF cmd = "listcal" THEN "listCalendars" ELSE "listEvents",
     calendar |-> CalOf(s), cursor |-> cursor]


StepReadyAlways(s) == strm[s].ust # "ended"

\* try_unfold starts a step only when it holds the state: while the future
\* of a step is pending, a poll polls that future.
StepReady(s) == strm[s].ust = "state"

\* State::Going(page_token) => fetch_page(page_token).await
FetchIssue(s) ==
    /\ Polls(s)
    /\ InnerDrained(s)
    /\ StepReady(s)
    /\ strm[s].st.k = "Going"
    /\ strm' = [strm EXCEPT ![s].ust = "fut", ![s].inner = None]
    /\ inflight' = Append(inflight, ListCall(s, strm[s].st.tok))
    /\ fetchLog' = [fetchLog EXCEPT ![s] =
                      Append(@, [cursor |-> strm[s].st.tok, status |-> "pending",
                                 items |-> <<>>, next |-> None])]
    /\ UNCHANGED <<cal, cal0, pc, cmd, args, remaining, index, out, decisions,
                   inserts, result, runs, prev, imports>>

NextStateDone(next_token) == Done

NextState(next_token) == IF IsSome(next_token) THEN Going(next_token) ELSE Done

\* The call returns a page of n items and, when more, a next token.
FetchOk(s) ==
    /\ strm[s].ust = "fut"
    /\ LET L == Listing(s)
           off == Offset(strm[s].st.tok)
       IN \E n \in 0..Min(MaxPage, Len(L) - off), more \in BOOLEAN :
            /\ off + n < Len(L) => more
            /\ (more /\ (n = 0 \/ off + n = Len(L)))
                 => CountIrregular(fetchLog[s], Len(L)) < MaxEmpty
            /\ LET page == SubSeq(L, off + 1, off + n)
                   next_token == IF more THEN Some(off + n) ELSE None
               IN /\ strm' = [strm EXCEPT ![s] =
                                [ust |-> "state", st |-> NextState(next_token),
                                 inner |-> Some(page)]]
                  /\ fetchLog' = [fetchLog EXCEPT ![s] =
                                    SetLast(@, [cursor |-> strm[s].st.tok, status |-> "ok",
                                                items |-> page, next |-> next_token])]
    /\ inflight' = SubSeq(inflight, 1, Len(inflight) - 1)
    /\ UNCHANGED <<cal, cal0, pc, cmd, args, remaining, index, out, decisions,
                   inserts, result, runs, prev, imports>>

OnFetchErrorSkipIndex(p) ==
    IF p \in {"list", "after"} THEN "after" ELSE IF p = "dst" THEN "src" ELSE "idle"

\* .await? on try_collect and on try_for_each: the error ends the command
\* (a list consumer may poll the ended stream again).
OnFetchError(p) == IF p \in {"list", "after"} THEN "after" ELSE "idle"

AfterErrorRetry(s) == [strm[s] EXCEPT !.ust = "state", !.inner = None]

AfterError(s) == [strm[s] EXCEPT !.ust = "ended", !.inner = None]

\* The call fails: fetch_page(page_token).await? ends the stream with the
\* error, and try_for_each / try_collect return it.
FetchErr(s) ==
    /\ strm[s].ust = "fut"
    /\ strm' = [strm EXCEPT ![s] = AfterError(s)]
    /\ fetchLog' = [fetchLog EXCEPT ![s] =
                      SetLast(@, [cursor |-> strm[s].st.tok, status |-> "err",
                                  items |-> <<>>, next |-> None])]
    /\ inflight' = SubSeq(inflight, 1, Len(inflight) - 1)
    /\ out' = [out EXCEPT ![s] = Append(@, <<"err">>)]
    /\ result' = "TransportError"
    /\ pc' = OnFetchError(pc)
    /\ UNCHANGED <<cal, cal0, cmd, args, remaining, index, decisions, inserts, runs,
                   prev, imports>>

AfterStreamEndStuck(p) ==
    CASE p \in {"list", "after"} -> "after"
      [] p = "dst" -> "src"
      [] OTHER -> p

\* The consumer returns when its stream ends: try_collect hands the index to
\* the reconciliation, try_for_each ends the command.
AfterStreamEnd(p) ==
    CASE p \in {"list", "after"} -> "after"
      [] p = "dst" -> "src"
      [] OTHER -> "idle"

\* State::Done => Ok(None): the stream ends.
StreamEnd(s) ==
    /\ Polls(s)
    /\ InnerDrained(s)
    /\ StepReady(s)
    /\ strm[s].st.k = "Done"
    /\ strm' = [strm EXCEPT ![s].ust = "ended", ![s].inner = None]
    /\ out' = [out EXCEPT ![s] = Append(@, <<"end">>)]
    /\ pc' = AfterStreamEnd(pc)
    /\ result' = IF pc = "dst" THEN result ELSE "ok"
    /\ UNCHANGED <<cal, cal0, cmd, args, remaining, inflight, index, fetchLog,
                   decisions, inserts, runs, prev, imports>>

\* A stream that has ended is polled again: try_unfold holds neither a state
\* nor a future and answers None.
PollEnded(s) ==
    /\ Polls(s)
    /\ InnerDrained(s)
    /\ strm[s].ust = "ended"
    /\ out' = [out EXCEPT ![s] = Append(@, <<"end">>)]
    /\ UNCHANGED <<cal, cal0, pc, cmd, args, remaining, strm, inflight, index,
                   fetchLog, decisions, inserts, result, runs, prev, imports>>

\* ------------------------------------------------- list and list-calendars
Reset ==
    /\ strm' = [s \in Streams |-> Fresh]
    /\ inflight' = <<>>
    /\ index' = <<>>
    /\ fetchLog' = EmptyLogs
    /\ out' = EmptyLogs
    /\ decisions' = <<>>
    /\ inserts' = <<>>
    /\ result' = ""

CanStart == pc \in {"idle", "after"}

StartList ==
    /\ CanStart
    /\ \E c \in Calendars, n \in 0..MaxNum :
         /\ args' = [NoArgs EXCEPT !.calendar = c, !.take = TRUE, !.num = n]
         /\ remaining' = n
    /\ cmd' = "list"
    /\ pc' = "list"
    /\ Reset
    /\ UNCHANGED <<cal, cal0, runs, prev, imports>>

StartListCalendars ==
    /\ CanStart
    /\ args' = NoArgs
    /\ remaining' = 0
    /\ cmd' = "listcal"
    /\ pc' = "list"
    /\ Reset
    /\ UNCHANGED <<cal, cal0, runs, prev, imports>>

\* The stream yields the next item of the page it holds; the consumer prints it.
ListItem ==
    /\ pc \in {"list", "after"}
    /\ Polls("src")
    /\ HasItem("src")
    /\ LET items == Unwrap(strm["src"].inner)
       IN /\ out' = [out EXCEPT !["src"] = Append(@, <<"item", Head(items)>>)]
          /\ strm' = [strm EXCEPT !["src"].inner = Some(Tail(items))]
    /\ remaining' = IF args.take THEN remaining - 1 ELSE remaining
    /\ UNCHANGED <<cal, cal0, pc, cmd, args, inflight, index, fetchLog, decisions,
                   inserts, result, runs, prev, imports>>

\* take(num) has handed out num items: it answers None without polling.
TakeEnd ==
    /\ pc = "list"
    /\ ~WantsMore
    /\ pc' = "after"
    /\ result' = "ok"
    /\ UNCHANGED <<cal, cal0, cmd, args, remaining, strm, inflight, index, fetchLog,
                   out, decisions, inserts, runs, prev, imports>>

\* -------------------------------------------------------------------- sync
\* --dry-run, --after and --updated-after: no flag, or one of them.
SyncArgs ==
    { NoArgs,
      [NoArgs EXCEPT !.dry_run = TRUE],
      [NoArgs EXCEPT !.starting_after = Some(1)],
      [NoArgs EXCEPT !.updated_after = Some(1)] }

StartSync ==
    /\ CanStart
    /\ runs < MaxRuns
    /\ args' \in SyncArgs
    /\ remaining' = 0
    /\ cmd' = "sync"
    /\ pc' = "dst"
    /\ runs' = runs + 1
    /\ prev' = IF cmd = "sync" /\ result = "ok"
               THEN [ok |-> TRUE, args |-> args, decisions |-> decisions,
                     dst |-> cal["dst"]]
               ELSE [ok |-> FALSE, args |-> NoArgs, decisions |-> <<>>,
                     dst |-> cal["dst"]]
    /\ Reset
    /\ UNCHANGED <<cal, cal0, imports>>

\* HashMap<String, Event>: collecting a key again replaces its event.
IndexInsert(ix, id, event) ==
    [k \in DOMAIN ix \cup {id} |-> IF k = id THEN event ELSE ix[k]]

CollectById(ix, event) ==
    IF SrcIdOf(event) # None THEN IndexInsert(ix, Unwrap(SrcIdOf(event)), event)
    ELSE IF event.id # None THEN IndexInsert(ix, Unwrap(event.id), event)
    ELSE ix

\* try_filter_map keeps the events that carry the sync tag; try_collect
\* puts them into the index.
Collect(ix, event) ==
    IF SrcIdOf(event) = None THEN ix
    ELSE IndexInsert(ix, Unwrap(SrcIdOf(event)), event)

DstItem ==
    /\ pc = "dst"
    /\ HasItem("dst")
    /\ LET items == Unwrap(strm["dst"].inner)
       IN /\ out' = [out EXCEPT !["dst"] = Append(@, <<"item", Head(items)>>)]
          /\ strm' = [strm EXCEPT !["dst"].inner = Some(Tail(items))]
          /\ index' = Collect(index, Head(items))
    /\ UNCHANGED <<cal, cal0, pc, cmd, args, remaining, inflight, fetchLog, decisions,
                   inserts, result, runs, prev, imports>>

TaggedSharedKeep(src_event, id) ==
    LET props == IF src_event.ext = None THEN [shared |-> None]
                 ELSE Unwrap(src_event.ext)
        shared == IF props.shared = None THEN <<>> ELSE Unwrap(props.shared)
    IN IF MapGet(shared, SRC_ID_KEY) = None
       THEN MapInsert(shared, SRC_ID_KEY, id) ELSE shared

\* The shared properties of the event to create: the source event's, with
\* the sync tag set to its id.
TaggedShared(src_event, id) ==
    LET props == IF src_event.ext = None THEN [shared |-> None]
                 ELSE Unwrap(src_event.ext)
        shared == IF props.shared = None THEN <<>> ELSE Unwrap(props.shared)
    IN MapInsert(shared, SRC_ID_KEY, id)

DstEventNoTimes(src_event, id) ==
    [summary |-> src_event.summary,
     tm |-> 0,
     ext |-> Shared(TaggedShared(src_event, id))]

\* summary, start and end are the source event's.
DstEvent(src_event, id) ==
    [summary |-> src_event.summary,
     tm |-> src_event.tm,
     ext |-> Shared(TaggedShared(src_event, id))]

InsertCall(dst_event) == [op |-> "insertEvent", calendar |-> "dst", event |-> dst_event]

ExistingByEventId(id) == \E k \in DOMAIN index : index[k].id = Some(id)

\* dst_events_by_src_id.get(&id) is Some
Existing(id) == id \in DOMAIN index

\* The line the reconciler logs for a source event with this id.
Decision(id) == IF Existing(id) THEN <<"ignore", id>> ELSE <<"insert", id>>

WritesAlways == TRUE

\* if !self.dry_run
Writes == ~args.dry_run

OnMissingIdSkip == [pc |-> "src", result |-> ""]

\* src_event.id.ok_or(eyre!("Event missing id"))?
OnMissingId == [pc |-> "idle", result |-> "MissingSourceId"]

OnInsertErrorContinue == [pc |-> "src", result |-> ""]

\* .doit().await? fails: try_for_each returns the error.
OnInsertError == [pc |-> "idle", result |-> "InsertError"]

AfterInsertIssuedDetached == "src"

\* hub.events().insert(..).doit().await: the closure waits for the call, and
\* try_for_each for the closure.
AfterInsertIssued == "insert"

\* One source event: the closure of try_for_each up to its first await.
SrcItem ==
    /\ pc = "src"
    /\ HasItem("src")
    /\ LET items == Unwrap(strm["src"].inner)
           src_event == Head(items)
       IN /\ out' = [out EXCEPT !["src"] = Append(@, <<"item", src_event>>)]
          /\ strm' = [strm EXCEPT !["src"].inner = Some(Tail(items))]
          /\ IF src_event.id = None
             THEN /\ result' = OnMissingId.result
                  /\ pc' = OnMissingId.pc
                  /\ UNCHANGED <<decisions, inserts, inflight>>
             ELSE LET id == Unwrap(src_event.id)
                  IN /\ decisions' = Append(decisions, Decision(id))
                     /\ IF ~Existing(id) /\ Writes
                        THEN /\ pc' = AfterInsertIssued
                             /\ inserts' = Append(inserts,
                                   [src_id |-> id, status |-> "pending",
                                    event |-> DstEvent(src_event, id)])
                             /\ inflight' = Append(inflight,
                                   InsertCall(DstEvent(src_event, id)))
                        ELSE UNCHANGED <<pc, inserts, inflight>>
                     /\ UNCHANGED result
    /\ UNCHANGED <<cal, cal0, cmd, args, remaining, index, fetchLog, runs, prev, imports>>

IndexAfterInsertAdds(ix, id, event) == IndexInsert(ix, id, event)

\* let dst_events_by_src_id = &dst_events_by_src_id: the closure holds a
\* shared reference, an inserted event does not enter the index.
IndexAfterInsert(ix, id, event) == ix

InsertOk ==
    /\ pc = "insert"
    /\ cal' = [cal EXCEPT !["dst"] = Append(@, Stored(@, inserts[Len(inserts)].event))]
    /\ inserts' = [inserts EXCEPT ![Len(inserts)].status = "ok"]
    /\ inflight' = SubSeq(inflight, 1, Len(inflight) - 1)
    /\ index' = IndexAfterInsert(index, inserts[Len(inserts)].src_id,
                                 Stored(cal["dst"], inserts[Len(inserts)].event))
    /\ pc' = "src"
    /\ UNCHANGED <<cal0, cmd, args, remaining, strm, fetchLog, out, decisions,
                   result, runs, prev, imports>>

InsertErr ==
    /\ pc = "insert"
    /\ inserts' = [inserts EXCEPT ![Len(inserts)].status = "err"]
    /\ inflight' = SubSeq(inflight, 1, Len(inflight) - 1)
    /\ pc' = OnInsertError.pc
    /\ result' = OnInsertError.result
    /\ UNCHANGED <<cal, cal0, cmd, args, remaining, strm, index, fetchLog, out,
                   decisions, runs, prev, imports>>

\* ------------------------------------------------------------ import-event
Uids == {1, 2}
Times == {0, 1}

\* Event { i_cal_uid, start, end, ..Default::default() }
ImportedEvent(ical_uid, start, end) ==
    [i_cal_uid |-> Some(ical_uid), start |-> Some(start), end |-> Some(end)]

ImportCall(event, calendar) ==
    [op |-> "importEvent", calendar |-> calendar, event |-> event]

HoldsUid(events, uid) ==
    \E i \in 1..Len(events) : "uid" \in DOMAIN events[i] /\ events[i].uid = uid

ImportCallsDedup(event, calendar) ==
    IF HoldsUid(cal[calendar], event.i_cal_uid) THEN <<>>
    ELSE <<ImportCall(event, calendar)>>

\* hub.events().import(event, &self.calendar).doit(): the calls of one run.
ImportCalls(event, calendar) == <<ImportCall(event, calendar)>>

\* ImportEvent::run up to its await.
StartImport ==
    /\ CanStart
    /\ Len(imports) < MaxImports
    /\ \E c \in Calendars, u \in Uids, en \in Times :
         LET event == ImportedEvent(u, 0, en)
             calls == ImportCalls(event, c)
         IN /\ args' = [NoArgs EXCEPT !.calendar = c]
            /\ inflight' = calls
            /\ imports' = Append(imports,
                  [ical_uid |-> u, calendar |-> c, calls |-> calls, status |-> "pending"])
    /\ cmd' = "import"
    /\ pc' = "import"
    /\ remaining' = 0
    /\ strm' = [s \in Streams |-> Fresh]
    /\ index' = <<>>
    /\ fetchLog' = EmptyLogs
    /\ out' = EmptyLogs
    /\ decisions' = <<>>
    /\ inserts' = <<>>
    /\ result' = ""
    /\ UNCHANGED <<cal, cal0, runs, prev>>

\* What the service keeps of an imported event.
StoredImport(events, request) ==
    [id |-> Some(NewId(events)), ext |-> None, summary |-> "",
     tm |-> Unwrap(request.end), upd |-> Now, uid |-> request.i_cal_uid]

\* The call returns: the service has added the event, or, when it holds one
\* with this UID, may have kept that one.
ImportOk ==
    /\ pc = "import"
    /\ LET c == imports[Len(imports)].calendar
           request == inflight[Len(inflight)].event
       IN \/ cal' = [cal EXCEPT ![c] = Append(@, StoredImport(@, request))]
          \/ /\ HoldsUid(cal[c], request.i_cal_uid)
             /\ cal' = cal
    /\ imports' = [imports EXCEPT ![Len(imports)].status = "ok"]
    /\ inflight' = SubSeq(inflight, 1, Len(inflight) - 1)
    /\ pc' = "idle"
    /\ result' = "ok"
    /\ UNCHANGED <<cal0, cmd, args, remaining, strm, index, fetchLog, out, decisions,
                   inserts, runs, prev>>

\* .doit().await? fails.
ImportErr ==
    /\ pc = "import"
    /\ imports' = [imports EXCEPT ![Len(imports)].status = "err"]
    /\ inflight' = SubSeq(inflight, 1, Len(inflight) - 1)
    /\ pc' = "idle"
    /\ result' = "ImportError"
    /\ UNCHANGED <<cal, cal0, cmd, args, remaining, strm, index, fetchLog, out,
                   decisions, inserts, runs, prev>>

\* ----------------------------------------------------------- specification
\* import-event
NextImport ==
    \/ StartImport
    \/ ImportOk
    \/ ImportErr

\* the calendars fill with what the invocations import
InitImport == Init /\ cal0["src"] = <<>> /\ cal0["dst"] = <<>>

SpecImport == InitImport /\ [][NextImport]_vars

\* list and list-calendars
NextList ==
    \/ StartList
    \/ StartListCalendars
    \/ FetchIssue("src")
    \/ FetchOk("src")
    \/ FetchErr("src")
    \/ StreamEnd("src")
    \/ PollEnded("src")
    \/ ListItem
    \/ TakeEnd

\* sync
Next ==
    \/ StartSync
    \/ \E s \in Streams : FetchIssue(s)
    \/ \E s \in Streams : FetchOk(s)
    \/ \E s \in Streams : FetchErr(s)
    \/ \E s \in Streams : StreamEnd(s)
    \/ DstItem
    \/ SrcItem
    \/ InsertOk
    \/ InsertErr

\* list and list-calendars need one calendar with events in it
InitList == Init /\ cal0["dst"] = <<>>

SpecList == InitList /\ [][NextList]_vars

Spec == Init /\ [][Next]_vars

\* list, list-calendars and sync, one command after another
NextAll ==
    \/ StartList
    \/ StartListCalendars
    \/ StartSync
    \/ \E s \in Streams : FetchIssue(s)
    \/ \E s \in Streams : FetchOk(s)
    \/ \E s \in Streams : FetchErr(s)
    \/ \E s \in Streams : StreamEnd(s)
    \/ PollEnded("src")
    \/ ListItem
    \/ TakeEnd
    \/ DstItem
    \/ SrcItem
    \/ InsertOk
    \/ InsertErr

InitAll == Init /\ Len(cal0["src"]) = MaxSrc /\ cal0["dst"] = <<>>

SpecAll == InitAll /\ [][NextAll]_vars

\* sync, with every service call returning and every step of the run taken:
\* the executor drives the one task of the command until it completes.
Fairness ==
    /\ \A s \in Streams :
         /\ WF_vars(FetchIssue(s))
         /\ WF_vars(FetchOk(s) \/ FetchErr(s))
         /\ WF_vars(StreamEnd(s))
    /\ WF_vars(DstItem)
    /\ WF_vars(SrcItem)
    /\ WF_vars(InsertOk \/ InsertErr)

SpecLive == InitAll /\ [][Next]_vars /\ Fairness

\* ------------------------------------------------------- reading the logs
RECURSIVE Items(_)
Items(o) ==
    IF o = <<>> THEN <<>>
    ELSE (IF o[1][1] = "item" THEN <<o[1][2]>> ELSE <<>>) \o Items(Tail(o))

RECURSIVE PageItems(_)
PageItems(log) ==
    IF log = <<>> THEN <<>> ELSE log[1].items \o PageItems(Tail(log))

AsItems(xs) == [i \in 1..Len(xs) |-> <<"item", xs[i]>>]
Ends(k) == [i \in 1..k |-> <<"end">>]
IsPrefix(a, b) == Len(a) <= Len(b) /\ a = SubSeq(b, 1, Len(a))
Has(o, entry) == \E i \in 1..Len(o) : o[i] = entry
Ceil(n, p) == (n + p - 1) \div p

\* ----------------------------------------------------------------- claims
\* C1: the item stream yields the items of the fetched pages, page after page
\* and in each page's order; once it has ended without an error it has
\* yielded all of them, the last page fetched is the first one with no next
\* cursor, and later polls yield only the end and fetch nothing.
C1_Concatenation ==
    LET log == fetchLog["src"]
        o == out["src"]
    IN /\ IsPrefix(Items(o), PageItems(log))
       /\ (Has(o, <<"end">>) /\ ~Has(o, <<"err">>)) =>
            /\ o = AsItems(PageItems(log)) \o Ends(CountEnds(o))
            /\ log # <<>>
            /\ \A i \in 1..Len(log) :
                 /\ log[i].status = "ok"
                 /\ (log[i].next = None) <=> (i = Len(log))

C1_Witness ==
    LET log == fetchLog["src"]
    IN /\ Has(out["src"], <<"end">>) /\ ~Has(out["src"], <<"err">>)
       /\ CountEnds(out["src"]) >= 2
       /\ Len(log) = 3
       /\ \E i \in 1..Len(log) : log[i].items = <<>>
       /\ Len(Items(out["src"])) >= 2

\* C2: when fetch k fails, the item stream has yielded the items of pages
\* 1..k-1, then the error once, then only the end; fetch k is the last call.
C2_ErrorEndsStream ==
    LET log == fetchLog["src"]
        o == out["src"]
    IN (\E k \in 1..Len(log) : log[k].status = "err") =>
         /\ log[Len(log)].status = "err"
         /\ \A i \in 1..(Len(log) - 1) : log[i].status = "ok" /\ log[i].next # None
         /\ o = AsItems(PageItems(log)) \o << <<"err">> >> \o Ends(CountEnds(o) - 1)
         /\ result = "TransportError"

C2_Witness ==
    LET log == fetchLog["src"]
    IN /\ Len(log) = 2
       /\ log[2].status = "err"
       /\ Len(log[1].items) = 2
       /\ CountEnds(out["src"]) = MaxRepoll + 1

\* C3: with take(num) the fetch that delivers the num-th item is the last one
\* (num = 0: none), and when the pages carry p items each (the final page of
\* the listing may carry fewer) at most ceil(num / p) calls are made.
UniformPages(log, p) ==
    \A i \in 1..Len(log) :
        log[i].status = "ok" =>
            \/ Len(log[i].items) = p
            \/ log[i].next = None /\ Len(log[i].items) < p

C3_TakeBoundsFetches ==
    LET log == fetchLog["src"]
    IN cmd = "list" =>
         /\ args.num = 0 => log = <<>>
         /\ log # <<>> => Len(PageItems(SubSeq(log, 1, Len(log) - 1))) < args.num
         /\ \A p \in 1..MaxPage :
              UniformPages(log, p) => Len(log) <= Ceil(args.num, p)

C3_Witness ==
    LET log == fetchLog["src"]
    IN /\ cmd = "list" /\ pc = "after" /\ args.num = 2 /\ result = "ok"
       /\ Len(log) = 2
       /\ UniformPages(log, 1)
       /\ log[2].next # None
       /\ Len(Items(out["src"])) = 2

\* The source events the run has taken from the source stream.
Seen == Items(out["src"])

RECURSIVE NotIndexed(_)
NotIndexed(events) ==
    IF events = <<>> THEN <<>>
    ELSE (IF events[1].id # None /\ Unwrap(events[1].id) \notin DOMAIN index
          THEN <<events[1]>> ELSE <<>>) \o NotIndexed(Tail(events))

RECURSIVE Tags(_)
Tags(events) ==
    IF events = <<>> THEN <<>> ELSE SrcIdOf(events[1]) \o Tags(Tail(events))

RECURSIVE Ids(_)
Ids(events) ==
    IF events = <<>> THEN <<>> ELSE events[1].id \o Ids(Tail(events))

Distinct(xs) == \A i, j \in 1..Len(xs) : i # j => xs[i] # xs[j]

RECURSIVE CountInserts(_)
CountInserts(dec) ==
    IF dec = <<>> THEN 0
    ELSE (IF dec[1][1] = "insert" THEN 1 ELSE 0) + CountInserts(Tail(dec))

\* The destination holds what it held when the run started, followed by the
\* first n events the run has inserted.
DstGrewBy(n) ==
    /\ cal["src"] = cal0["src"]
    /\ Len(cal["dst"]) = Len(prev.dst) + n
    /\ SubSeq(cal["dst"], 1, Len(prev.dst)) = prev.dst
    /\ \A j \in 1..n :
         /\ cal["dst"][Len(prev.dst) + j].ext = inserts[j].event.ext
         /\ cal["dst"][Len(prev.dst) + j].summary = inserts[j].event.summary

\* The last source fetch is the one that brought the last event taken, every
\* source fetch has returned a page, and the stream has not been polled since.
NoFetchBeyond(n) ==
    LET log == fetchLog["src"]
    IN /\ \A i \in 1..Len(log) : log[i].status = "ok"
       /\ log # <<>>
       /\ Len(PageItems(SubSeq(log, 1, Len(log) - 1))) < n
       /\ out["src"] = AsItems(Seen)

\* C4: a sync run that follows a completed live run with the same arguments
\* makes no insertEvent call.
C4_Idempotent ==
    (cmd = "sync" /\ prev.ok /\ ~prev.args.dry_run /\ args = prev.args)
        => inserts = <<>>

C4_Witness ==
    /\ cmd = "sync" /\ prev.ok /\ ~prev.args.dry_run /\ args = prev.args
    /\ result = "ok"
    /\ Len(prev.dst) = Len(cal0["dst"]) + 2
    /\ decisions = << <<"ignore", 1>>, <<"ignore", 2>> >>

\* C5: a live run that completes has made one insertEvent call for each
\* listed source event whose id is not a key of the index, in listing order,
\* each call succeeded, and the destination changed by these inserts only.
C5_InsertsAreTheMissing ==
    (cmd = "sync" /\ ~args.dry_run /\ result = "ok") =>
        LET missing == NotIndexed(Listing("src"))
        IN /\ Len(inserts) = Len(missing)
           /\ \A i \in 1..Len(inserts) :
                /\ inserts[i].status = "ok"
                /\ Some(inserts[i].src_id) = missing[i].id
                /\ inserts[i].event.summary = missing[i].summary
                /\ SrcIdOf(inserts[i].event) = missing[i].id
           /\ DstGrewBy(Len(inserts))

C5_Witness ==
    /\ cmd = "sync" /\ ~args.dry_run /\ result = "ok"
    /\ Ids(Listing("src")) = <<1, 2>>
    /\ DOMAIN index = {1}
    /\ Len(inserts) = 1
    /\ inserts[1].src_id = 2
    /\ decisions = << <<"ignore", 1>>, <<"insert", 2>> >>

\* C6: a dry run makes no insertEvent call and leaves the destination as it
\* was; the live run with otherwise the same arguments that follows a
\* completed dry run logs the same decisions, in the same order.
C6_DryRun ==
    /\ (cmd = "sync" /\ args.dry_run) => (inserts = <<>> /\ DstGrewBy(0))
    /\ (/\ cmd = "sync" /\ ~args.dry_run
        /\ prev.ok /\ prev.args.dry_run
        /\ args = [prev.args EXCEPT !.dry_run = FALSE])
         => /\ IsPrefix(decisions, prev.decisions)
            /\ result = "ok" => decisions = prev.decisions

C6_Witness ==
    /\ cmd = "sync" /\ ~args.dry_run
    /\ prev.ok /\ prev.args.dry_run
    /\ result = "ok"
    /\ decisions = prev.decisions
    /\ decisions = << <<"insert", 2>>, <<"ignore", 1>> >>
    /\ Len(inserts) = 1

\* C7: a source event with no id is the last one the run takes: the run has
\* ended with MissingSourceId, no decision was made for it, no call is in
\* flight and no source page was fetched after the one it came in.
C7_MissingIdAborts ==
    cmd = "sync" =>
      /\ \A i \in 1..Len(Seen) :
           Seen[i].id = None =>
             /\ i = Len(Seen)
             /\ result = "MissingSourceId"
             /\ pc = "idle"
             /\ inflight = <<>>
             /\ Len(decisions) = i - 1
             /\ \A j \in 1..Len(inserts) : inserts[j].status = "ok"
             /\ DstGrewBy(Len(inserts))
             /\ NoFetchBeyond(i)
      /\ result = "MissingSourceId" => (Seen # <<>> /\ Seen[Len(Seen)].id = None)

C7_Witness ==
    /\ cmd = "sync" /\ result = "MissingSourceId"
    /\ Len(Seen) = 2
    /\ Len(inserts) = 1
    /\ index # <<>>
    /\ strm["src"].st.k = "Going"

\* C8: a failed insertEvent call is the last call of the run: the run has
\* ended with the error, the failing event is the last one taken and was
\* tried once, and the destination holds every event inserted before it.
C8_InsertErrorAborts ==
    cmd = "sync" =>
      /\ \A i \in 1..Len(inserts) :
           inserts[i].status = "err" =>
             /\ i = Len(inserts)
             /\ result = "InsertError"
             /\ pc = "idle"
             /\ inflight = <<>>
             /\ Len(Seen) = Len(decisions)
             /\ decisions[Len(decisions)] = <<"insert", inserts[i].src_id>>
             /\ CountInserts(decisions) = i
             /\ \A j \in 1..(i - 1) : inserts[j].status = "ok"
             /\ DstGrewBy(i - 1)
             /\ NoFetchBeyond(Len(Seen))
      /\ result = "InsertError" =>
           (inserts # <<>> /\ inserts[Len(inserts)].status = "err")

C8_Witness ==
    /\ cmd = "sync" /\ result = "InsertError"
    /\ Len(inserts) = 2
    /\ Len(cal["dst"]) = Len(prev.dst) + 1
    /\ Len(fetchLog["src"]) = 2
    /\ strm["src"].st.k = "Going"

\* C9: the event of every insertEvent call has shared extended properties
\* with exactly one event-sync-src-id entry, whose value is the id of the
\* source event the call was made for.
C9_InsertCarriesTag ==
    cmd = "sync" =>
      /\ Len(inserts) = IF args.dry_run THEN 0 ELSE Len(NotIndexed(Seen))
      /\ \A i \in 1..Len(inserts) :
           LET ev == inserts[i].event
               from == NotIndexed(Seen)[i]
           IN /\ ev.ext # None
              /\ Unwrap(ev.ext).shared # None
              /\ MapCount(Unwrap(Unwrap(ev.ext).shared), SRC_ID_KEY) = 1
              /\ MapGet(Unwrap(Unwrap(ev.ext).shared), SRC_ID_KEY) = from.id
      /\ pc = "insert" =>
            inflight = <<InsertCall(inserts[Len(inserts)].event)>>

C9_Witness ==
    /\ cmd = "sync"
    /\ Len(inserts) = 2
    /\ NotIndexed(Seen)[1].ext = None
    /\ SrcIdOf(NotIndexed(Seen)[2]) = Some(1)
    /\ NotIndexed(Seen)[2].id = Some(2)
    /\ inserts[2].status = "ok"

\* C10: when the ids of the source events are pairwise distinct and no two
\* events of the destination carried the same sync tag before the first run,
\* no two events of the destination ever carry the same sync tag.
C10_NoDuplicateTags ==
    (Distinct(Ids(cal0["src"])) /\ Distinct(Tags(cal0["dst"])))
        => Distinct(Tags(cal["dst"]))

TagSet(events) == { Tags(events)[i] : i \in 1..Len(Tags(events)) }

\* The destination stream has returned every page up to the one with no next
\* cursor, has yielded all their events and has ended.
DstDrained ==
    LET log == fetchLog["dst"]
    IN /\ log # <<>>
       /\ \A i \in 1..Len(log) :
            /\ log[i].status = "ok"
            /\ (log[i].next = None) <=> (i = Len(log))
       /\ out["dst"] = AsItems(PageItems(log)) \o << <<"end">> >>

\* C11: in a sync run, once a source listEvents call, a decision or an
\* insertEvent call has been made, the destination listing has been drained
\* to its last page and the index holds the tags of all its events.
C11_IndexBeforeReconcile ==
    (/\ cmd = "sync"
     /\ \/ fetchLog["src"] # <<>>
        \/ out["src"] # <<>>
        \/ decisions # <<>>
        \/ inserts # <<>>)
        => /\ DstDrained
           /\ DOMAIN index = TagSet(PageItems(fetchLog["dst"]))

C11_Witness ==
    /\ cmd = "sync"
    /\ Len(fetchLog["dst"]) = 2
    /\ fetchLog["dst"][1].items # <<>>
    /\ index # <<>>
    /\ Len(fetchLog["src"]) = 1
    /\ fetchLog["src"][1].status = "pending"
    /\ inserts = <<>>

RECURSIVE CountPending(_)
CountPending(log) ==
    IF log = <<>> THEN 0
    ELSE (IF log[1].status = "pending" THEN 1 ELSE 0) + CountPending(Tail(log))

\* The calls that have been issued and have not returned.
Outstanding ==
    CountPending(fetchLog["src"]) + CountPending(fetchLog["dst"]) + CountPending(inserts)

\* C12: at most one call to the service is in flight, it is the last call
\* issued, and every fetch but the last of a stream has returned a page with
\* a next cursor.
C12_OneCallInFlight ==
    /\ Len(inflight) <= 1
    /\ Outstanding = Len(inflight)
    /\ \A s \in Streams :
         LET log == fetchLog[s]
         IN /\ \A i \in 1..(Len(log) - 1) :
                 log[i].status = "ok" /\ log[i].next # None
            /\ (log # <<>> /\ log[Len(log)].status = "pending") =>
                 inflight = <<ListCall(s, log[Len(log)].cursor)>>
    /\ (inserts # <<>> /\ inserts[Len(inserts)].status = "pending") =>
         inflight = <<InsertCall(inserts[Len(inserts)].event)>>

C12_Witness ==
    /\ cmd = "sync"
    /\ Len(inflight) = 1
    /\ inflight[1].op = "insertEvent"
    /\ Len(fetchLog["src"]) = 2
    /\ Len(fetchLog["dst"]) = 2
    /\ Len(inserts) = 2
    /\ runs = 2

RECURSIVE CountUid(_, _)
CountUid(events, uid) ==
    IF events = <<>> THEN 0
    ELSE (IF "uid" \in DOMAIN events[1] /\ events[1].uid = uid THEN 1 ELSE 0)
             + CountUid(Tail(events), uid)

\* C13: every import-event invocation has issued exactly one call, an
\* importEvent on its calendar with its UID, and no invocation has listed
\* or inserted anything; the call in flight is the last invocation's.
C13_OneImportEach ==
    /\ \A i \in 1..Len(imports) :
         /\ Len(imports[i].calls) = 1
         /\ imports[i].calls[1].op = "importEvent"
         /\ imports[i].calls[1].calendar = imports[i].calendar
         /\ imports[i].calls[1].event.i_cal_uid = Some(imports[i].ical_uid)
         /\ imports[i].status = "pending" => (i = Len(imports) /\ pc = "import")
    /\ cmd = "import" =>
         /\ fetchLog = EmptyLogs
         /\ inserts = <<>>
         /\ index = <<>>
         /\ inflight = IF pc = "import" THEN imports[Len(imports)].calls ELSE <<>>

C13_Witness ==
    /\ Len(imports) = 3
    /\ \A i \in 1..3 :
         /\ imports[i].ical_uid = 1
         /\ imports[i].calendar = "dst"
         /\ imports[i].status = "ok"
    /\ CountUid(cal["dst"], Some(1)) = 2

\* C14: the first fetch of a stream has no cursor, every later fetch has the
\* cursor the fetch before it returned, the state is Done exactly when a
\* fetch has returned no next cursor, and that fetch is the stream's last.
C14_CursorThreading ==
    \A s \in Streams :
        LET log == fetchLog[s]
            n == Len(log)
        IN /\ log = <<>> => strm[s].st = Going(None)
           /\ log # <<>> => log[1].cursor = None
           /\ \A i \in 2..n :
                /\ log[i - 1].status = "ok"
                /\ log[i - 1].next # None
                /\ log[i].cursor = log[i - 1].next
           /\ \A i \in 1..n :
                (log[i].status = "ok" /\ log[i].next = None) => i = n
           /\ strm[s].st.k = "Done" <=>
                (log # <<>> /\ log[n].status = "ok" /\ log[n].next = None)
           /\ (log # <<>> /\ strm[s].st.k = "Going") =>
                strm[s].st.tok = IF log[n].status = "ok" THEN log[n].next
                                 ELSE log[n].cursor

C14_Witness ==
    /\ cmd = "sync" /\ runs = 2
    /\ Len(fetchLog["dst"]) = 3
    /\ fetchLog["dst"][3].cursor = Some(2)
    /\ fetchLog["dst"][2].cursor = Some(1)
    /\ strm["dst"].st.k = "Done"
    /\ Len(fetchLog["src"]) = 1
    /\ fetchLog["src"][1].status = "pending"

\* C15: a stream with a fetch in its log has a consumer that has asked for
\* an item (list with num > 0, list-calendars, the collection of the
\* destination, or the reconciliation after it); when the last fetch was
\* issued every item of the pages before it had been delivered and the
\* consumer wanted one more; the items not yet delivered are those the
\* stream holds of the last page.
C15_FetchOnDemand ==
    \A s \in Streams :
        LET log == fetchLog[s]
            n == Len(log)
            before == PageItems(SubSeq(log, 1, n - 1))
        IN /\ (cmd \in {"none", "import"}) => log = <<>>
           /\ (s = "dst" /\ cmd # "sync") => log = <<>>
           /\ (s = "src" /\ cmd = "sync" /\ pc = "dst") => log = <<>>
           /\ (cmd = "list" /\ args.num = 0) => log = <<>>
           /\ log # <<>> =>
                /\ IsPrefix(before, Items(out[s]))
                /\ cmd = "list" => Len(before) < args.num
                /\ (log[n].status = "pending") => Items(out[s]) = before
                /\ (log[n].status = "ok" /\ strm[s].inner # None) =>
                      Items(out[s]) \o Unwrap(strm[s].inner) = PageItems(log)

C15_Witness ==
    LET log == fetchLog["src"]
    IN /\ cmd = "list" /\ args.num = 2
       /\ Len(log) = 2
       /\ Len(log[1].items) = 1
       /\ log[2].status = "pending"
       /\ Len(Items(out["src"])) = 1

\* C16: no step taken while source events are reconciled (a skip, a dry-run
\* report, the issue of an insert, its success, its failure, a source fetch,
\* the end of the source stream) changes the index.
C16_IndexReadOnly ==
    [][(cmd = "sync" /\ pc \in {"src", "insert"}) => index' = index]_vars

C16_Witness ==
    /\ cmd = "sync" /\ result = "ok"
    /\ index # <<>>
    /\ Len(inserts) = 2
    /\ inserts[1].src_id = inserts[2].src_id
    /\ inserts[1].status = "ok" /\ inserts[2].status = "ok"
    /\ inserts[1].src_id \notin DOMAIN index

\* The last of the events that carries the sync tag k.
RECURSIVE LastTagged(_, _)
LastTagged(events, k) ==
    IF SrcIdOf(events[Len(events)]) = Some(k) THEN events[Len(events)]
    ELSE LastTagged(SubSeq(events, 1, Len(events) - 1), k)

\* C17: the keys of the index are the sync tags of the destination events
\* listed so far, each key maps to the last listed event that carries it, an
\* event without the tag raises no error, and a source id is ignored exactly
\* when it is one of these tags.
C17_IndexKeysAreTags ==
    cmd = "sync" =>
        LET listed == Items(out["dst"])
        IN /\ DOMAIN index = TagSet(listed)
           /\ \A k \in DOMAIN index : index[k] = LastTagged(listed, k)
           /\ pc = "dst" => result = ""
           /\ result = "TransportError" =>
                 \E s \in Streams :
                     fetchLog[s] # <<>> /\ fetchLog[s][Len(fetchLog[s])].status = "err"
           /\ \A i \in 1..Len(decisions) :
                 decisions[i][1] = "ignore" <=> decisions[i][2] \in TagSet(listed)

C17_Witness ==
    LET listed == Items(out["dst"])
    IN /\ cmd = "sync" /\ result = "ok" /\ runs = 2
       /\ Len(listed) = 2
       /\ listed[1].id = Some(1) /\ SrcIdOf(listed[1]) = None
       /\ DOMAIN index = {2}
       /\ decisions = << <<"ignore", 2>>, <<"insert", 1>> >>

\* C18: when a fetch of the destination listing has failed in a sync run,
\* it is the last destination fetch, the run has ended with that error, and
\* the run has made no source fetch, no decision and no insertEvent call.
C18_DstErrorAborts ==
    LET log == fetchLog["dst"]
    IN (cmd = "sync" /\ \E i \in 1..Len(log) : log[i].status = "err") =>
         /\ log[Len(log)].status = "err"
         /\ \A i \in 1..(Len(log) - 1) : log[i].status = "ok"
         /\ result = "TransportError"
         /\ pc = "idle"
         /\ inflight = <<>>
         /\ fetchLog["src"] = <<>>
         /\ out["src"] = <<>>
         /\ decisions = <<>>
         /\ inserts = <<>>
         /\ cal["dst"] = prev.dst

C18_Witness ==
    LET log == fetchLog["dst"]
    IN /\ cmd = "sync" /\ result = "TransportError"
       /\ Len(log) = 2
       /\ log[2].status = "err"
       /\ log[1].items # <<>>
       /\ index # <<>>
       /\ cal["src"] # <<>>

\* C19: in a sync run every source event taken has its decision (none for
\* the event without id that ended the run) and, in a live run, every insert
\* decision its insertEvent call; when a source fetch is pending, the events
\* of all earlier source pages have their decisions and their inserts have
\* returned; when the run has ended with an error of reconciliation, the last
\* source fetch is the one that brought the event it ended on.
C19_PageByPage ==
    cmd = "sync" =>
        LET log == fetchLog["src"]
            n == Len(log)
            before == PageItems(SubSeq(log, 1, n - 1))
        IN /\ Len(Seen) = Len(decisions) + (IF result = "MissingSourceId" THEN 1 ELSE 0)
           /\ Len(inserts) = IF args.dry_run THEN 0 ELSE CountInserts(decisions)
           /\ log # <<>> => IsPrefix(before, Seen)
           /\ (log # <<>> /\ log[n].status = "pending") =>
                 /\ Seen = before
                 /\ Len(decisions) = Len(before)
                 /\ \A j \in 1..Len(inserts) : inserts[j].status = "ok"
                 /\ pc = "src"
           /\ pc = "insert" =>
                 /\ log[n].status = "ok"
                 /\ Len(PageItems(SubSeq(log, 1, n - 1))) < Len(Seen)
           /\ result \in {"MissingSourceId", "InsertError"} => NoFetchBeyond(Len(Seen))

C19_Witness ==
    LET log == fetchLog["src"]
    IN /\ cmd = "sync" /\ ~args.dry_run
       /\ Len(log) = 2
       /\ log[2].status = "pending"
       /\ Len(log[1].items) = 2
       /\ decisions = << <<"insert", 2>>, <<"ignore", 1>> >>
       /\ Len(inserts) = 1

\* The consumer of stream s has not returned.
Wanted(s) ==
    \/ s = "dst" /\ pc = "dst"
    \/ s = "src" /\ pc \in {"src", "insert"}

\* C20: every sync run ends, with success or with an error; and whenever the
\* page stream of a running consumer is in state Going, after however many
\* pages, another fetch is made, unless the reconciliation has ended the run.
C20_Terminates ==
    /\ (pc # "idle") ~> (pc = "idle" /\ result # "")
    /\ \A s \in Streams :
         (Wanted(s) /\ strm[s].ust = "state" /\ strm[s].st.k = "Going")
            ~> (strm[s].ust = "fut" \/ result \in {"MissingSourceId", "InsertError"})

C20_Witness ==
    /\ cmd = "sync" /\ pc = "idle" /\ result = "ok" /\ runs = 2
    /\ Len(fetchLog["dst"]) = 3
    /\ \A i \in 1..3 : Len(fetchLog["dst"][i].items) <= 1
    /\ Len(fetchLog["src"]) = 2
    /\ prev.ok
====
